---- MODULE Spec2Model ----
(***************************************************************************)
(* Multi-venue arbitrage scanners of the repository: quote aggregation,    *)
(* fee-adjusted profit computation, tiering and throttled execution.       *)
(*                                                                         *)
(* One behaviour of the model is one run of one program of the repository; *)
(* `scanner` says which one:                                               *)
(*   "main"       src/main.py            ImmediateArbitrageScanner         *)
(*   "optimized"  src/main_optimized.py  OptimizedArbitrageScanner         *)
(*   "enhanced"   src/main_enhanced.py   EnhancedArbitrageScanner, fed by  *)
(*                src/unified_arbitrage_scanner.py UnifiedArbitrageScanner *)
(*   "production" src/python_scanner/production_flashloan_scanner.py       *)
(*                ProductionFlashloanScanner.find_arbitrage_opportunities  *)
(*   "cex"        src/unified_arbitrage_scanner.py execute_cex_arbitrage   *)
(*                on top of src/cex_trading_api.py CexTradingAPI           *)
(*                                                                         *)
(* Units.  Token amounts are integers counted in units of 5*10^12 wei, so  *)
(* that 0.1 token = 20000 units and every fee of the source is a whole     *)
(* number.  A Python float x (profit percentage, threshold) is held as the *)
(* integer x * 10^6 (parts per million); with the amounts used the         *)
(* division real_profit / amount_in is exact in that representation.       *)
(* Time is in seconds.                                                     *)
(***************************************************************************)
EXTENDS Integers, Sequences, FiniteSets, TLC

VARIABLES
    scanner,              \* which program runs
    live,                 \* self.account and self.contract are both set
    now,                  \* time.time()
    last_execution_time,  \* self.last_execution_time
    pc,                   \* position of the scan/dispatch code
    dex_prices,           \* dex_prices of the current pair scan: dex -> amount_out, 0 = no entry
    k,                    \* index of the candidate (venue pair, direction) being evaluated
    opportunity,          \* the ArbitrageOpportunity built for the current candidate
    current_time,         \* `current_time` of the execution in progress
    trade_amount_tokens,  \* self.trade_amount_tokens
    stats,                \* self.stats
    event,                \* tag of the last log line / notification of the dispatcher
    reverse_request,      \* argument of the last sell-leg _get_amounts_out call
    top_opportunities,    \* main_enhanced.py: the list handed to process_opportunities
    prev_invoke_time,     \* history: when the opportunity of the previous, completed
                          \* execution was evaluated; -1 before the first one
    profit_calc,          \* locals of the last profit calculation
    trading_api,          \* CexTradingAPI: trading_enabled and the exchanges with an API key
    cex,                  \* execute_cex_arbitrage: its opportunity and the two TradeResults
    place_calls,          \* place_market_order calls of the current execute_cex_arbitrage
    returned,             \* history: values execute_cex_arbitrage returned, per outcome
    scan_log,             \* history of the current pair scan: the profit of every
                          \* Opportunity it built, and the best profit it computed
    cex_quotes,           \* unified_arbitrage_scanner.py: the ticker lists and the DEX
                          \* price the finders worked on for the list being processed
    clock,                \* time.time() as the rate limiters read it, in 1/20 s
    last_request_time,    \* main.py: self.last_request_time
    last_request_times,   \* cex_price_provider.py: self.last_request_times
    issued,               \* history: when the last two requests to each venue went
                          \* out; 0 stands for none
    external,             \* history: what the external calls of the last execution
                          \* came to (the wait for the receipt, the two order requests);
                          \* forgotten when the next pair is scanned
    telegram,             \* the notifications sent while the last candidate or list
                          \* element was handled
    restarts,             \* run_continuous_immediate_scanning: the calls of itself that
                          \* are on the stack, one per restart
    bot_stats,            \* enhanced_telegram_bot.py: the counters of telegram_bot.stats
    classified,           \* history: a set of quotes and what the classification made
                          \* of it the first and the second time
    provider,             \* cex_price_provider.py: self.session of the provider the two
                          \* scan tasks of find_all_opportunities share, the sessions
                          \* closed so far, and where each task stands
    dex_cache,            \* unified_arbitrage_scanner.py: self.dex_price_cache, the
                          \* clock get_dex_price reads, and (history) its last return
    cycle                 \* the scan cycle of main.py and main_optimized.py: the
                          \* position of the pair loop, and (history) the executions
                          \* that succeeded in this cycle

vars == <<scanner, live, now, last_execution_time, pc, dex_prices, k, opportunity,
          current_time, trade_amount_tokens, stats, event, reverse_request,
          top_opportunities, prev_invoke_time, profit_calc, trading_api, cex,
          place_calls, returned, scan_log, cex_quotes, clock, last_request_time,
          last_request_times, issued, external, telegram, restarts, bot_stats,
          classified, cycle, provider, dex_cache>>

\* the state of the restart handler and of the command bot
serviceVars == <<restarts, bot_stats, classified, provider, dex_cache>>

\* the state of the rate limiters
limiterVars == <<clock, last_request_time, last_request_times, issued>>

\* the state of the CEX execution path
cexVars == <<trading_api, cex, place_calls, returned>>

\* the state of the scanners and of the dispatcher
scanVars == <<now, last_execution_time, dex_prices, k, opportunity, current_time,
              trade_amount_tokens, stats, event, reverse_request, top_opportunities,
              prev_invoke_time, scan_log, cex_quotes, limiterVars, telegram>>

(***************************************************************************)
(* Bounds of the model.                                                    *)
(***************************************************************************)
StartTime == 50     \* the clock at process start (time.time() is far above any interval)
TickStep == 10      \* seconds that pass in one step of the clock
MaxTime == 90       \* the clock stops here
MaxFound == 2       \* cap of stats['opportunities_found']
StartClock == 1000  \* the rate limiters' clock at process start, in 1/20 s
MaxClock == 1060    \* the clock of the router limiter stops here
MaxExchangeClock == 1006    \* the clock of the exchange limiters stops here
MaxRestarts == 4    \* restarts of the scan loop the model follows
MaxBotCount == 2    \* cap of each total of telegram_bot.stats
NumPairs == 2       \* pairs of the list a scan cycle goes through
MaxRequests == 2    \* price requests a scan task issues inside its block
MaxCacheTime == 20  \* the clock of get_dex_price stops here, in seconds

(***************************************************************************)
(* Configuration set in __init__.                                          *)
(***************************************************************************)
\* scale of the integer that stands for a Python float: x is held as x * PctScale
PctScale == 1000 * 1000

MainConfig ==
    [ min_execution_interval         |-> 30,
      min_profit_threshold           |-> 5000,     \* 0.005
      immediate_execution_threshold  |-> 8000,     \* 0.008
      aggressive_execution_threshold |-> 15000,    \* 0.015
      gas_cost_tokens                |-> 6,        \* int(0.0003 * 1e18 * 0.1) wei
      base_trade_amount              |-> 20000,    \* 0.1 token
      aggressive_trade_amount        |-> 100000,   \* 0.5 token
      max_trade_amount               |-> 200000 ]  \* 1.0 token

OptimizedConfig ==
    [ min_execution_interval         |-> 20,
      min_profit_threshold           |-> 500,      \* 0.0005
      immediate_execution_threshold  |-> 1500,     \* 0.0015
      aggressive_execution_threshold |-> 4000,     \* 0.004
      gas_cost_tokens                |-> 3,        \* int(0.0003 * 1e18 * 0.05) wei
      base_trade_amount              |-> 100000,   \* 0.5 token
      aggressive_trade_amount        |-> 200000,   \* 1.0 token
      max_trade_amount               |-> 400000 ]  \* 2.0 token

\* main_enhanced.py; profit thresholds per opportunity type
EnhancedConfig ==
    [ min_execution_interval         |-> 45,
      min_profit_threshold_cex_dex   |-> 3000,     \* 0.003
      min_profit_threshold_cex_cex   |-> 5000,     \* 0.005
      min_profit_threshold_dex_dex   |-> 5000,     \* 0.005
      immediate_execution_threshold  |-> 8000,     \* 0.008
      aggressive_execution_threshold |-> 15000 ]   \* 0.015

Config(s) ==
    CASE s = "main"      -> MainConfig
      [] s = "optimized" -> OptimizedConfig
      [] OTHER           -> EnhancedConfig

\* self.dex_routers, in dict order
dex_routers == <<"PancakeSwap", "Biswap", "ApeSwap">>

DexSet == {dex_routers[i] : i \in 1..Len(dex_routers)}

(***************************************************************************)
(* Profit calculation of _scan_pair_and_execute_immediately.               *)
(***************************************************************************)
flashloan_fee(s, amount_in) ==
    IF s = "main" THEN (amount_in * 2) \div 1000 ELSE (amount_in * 1) \div 1000

dex_fees(s, amount_in) ==
    IF s = "main" THEN (amount_in * 3) \div 1000 ELSE (amount_in * 15) \div 10000

total_fees(s, amount_in) ==
    flashloan_fee(s, amount_in) + dex_fees(s, amount_in) + Config(s).gas_cost_tokens

amount_needed(s, amount_in) == amount_in + total_fees(s, amount_in)

real_profit_gross(s, amount_in, final_amount) == final_amount - amount_in

real_profit(s, amount_in, final_amount) == final_amount - amount_needed(s, amount_in)

real_profit_percentage(s, amount_in, final_amount) ==
    IF real_profit(s, amount_in, final_amount) > 0
    THEN (real_profit(s, amount_in, final_amount) * PctScale) \div amount_in
    ELSE 0

min_profit_tokens(s, amount_in) == (amount_in * Config(s).min_profit_threshold) \div PctScale

\* the "More realistic profit check" that decides whether an ArbitrageOpportunity is built
profit_check(s, amount_in, final_amount) ==
    /\ real_profit(s, amount_in, final_amount) > min_profit_tokens(s, amount_in)
    /\ real_profit_percentage(s, amount_in, final_amount) > Config(s).min_profit_threshold

\* the locals of the fee and profit calculation, as the scan leaves them
calculate_fees(s, amount_in, final_amount) ==
    [ principal      |-> amount_in,
      final_amount   |-> final_amount,
      flashloan_fee  |-> flashloan_fee(s, amount_in),
      venue_fees     |-> dex_fees(s, amount_in),
      gas_cost       |-> Config(s).gas_cost_tokens,
      net_profit     |-> real_profit(s, amount_in, final_amount),
      compared       |-> real_profit_percentage(s, amount_in, final_amount) ]

NoCalc ==
    [ principal |-> 0, final_amount |-> 0, flashloan_fee |-> 0, venue_fees |-> 0,
      gas_cost |-> 0, net_profit |-> 0, compared |-> 0 ]

get_dynamic_trade_amount_strict(s, profit_percentage) ==
    IF profit_percentage > Config(s).aggressive_execution_threshold
    THEN Config(s).max_trade_amount
    ELSE IF profit_percentage > Config(s).immediate_execution_threshold
         THEN Config(s).aggressive_trade_amount
         ELSE Config(s).base_trade_amount

get_dynamic_trade_amount(s, profit_percentage) ==
    IF profit_percentage >= Config(s).aggressive_execution_threshold
    THEN Config(s).max_trade_amount
    ELSE IF profit_percentage >= Config(s).immediate_execution_threshold
         THEN Config(s).aggressive_trade_amount
         ELSE Config(s).base_trade_amount

execution_tier(s, profit_percentage) ==
    IF profit_percentage >= Config(s).aggressive_execution_threshold THEN "AGGRESSIVE"
    ELSE IF profit_percentage >= Config(s).immediate_execution_threshold THEN "IMMEDIATE"
    ELSE "NONE"

\* `if real_profit_percentage >= self.immediate_execution_threshold`
qualifies(s, profit_percentage) ==
    profit_percentage >= Config(s).immediate_execution_threshold

cooldown_ignored(s, t, last) == TRUE

\* the cooldown test, written as the condition under which execution goes ahead
cooldown_elapsed(s, t, last) == ~(t - last < Config(s).min_execution_interval)

(***************************************************************************)
(* Rate limiting of the quote requests: _rate_limit of main.py (one        *)
(* limiter for all routers) and of cex_price_provider.py (one per          *)
(* exchange).  Times are in 1/20 s.                                        *)
(***************************************************************************)
request_delay == 2 * 20                          \* self.request_delay = 2.0

PriceExchanges == {"Binance", "OKX"}

cex_configs ==
    [ Binance |-> [rate_limit |-> 10],           \* requests per second
      OKX     |-> [rate_limit |-> 20] ]

min_interval(exchange) == (1 * 20) \div cex_configs[exchange].rate_limit

\* self.last_request_times.get(exchange, 0)
last_request(times, exchange) ==
    IF exchange \in DOMAIN times THEN times[exchange] ELSE 0

rate_limit_no_sleep(t, last, delay) == t

\* the time at which _rate_limit called at t goes on: where time.sleep returns at the
\* earliest, or t without sleep
rate_limit(t, last, delay) ==
    IF t - last < delay
    THEN t + (delay - (t - last))
    ELSE t

(***************************************************************************)
(* Candidate generation: the loops over i, j and the two directions.       *)
(***************************************************************************)
dex_names_all(prices) == dex_routers

\* 0.000001 < float(amounts[-1]) / float(amount_in) < 1000000
price_in_bound(amount_in, amount_out) ==
    /\ amount_out > amount_in \div PctScale
    /\ amount_out \div PctScale < amount_in

\* main.py _get_amounts_out: the last amount of the router's answer, or None (0) when
\* the call raised, the answer is empty or zero, or the price is out of the bound;
\* amounts_out = 0 stands for the call that raised or answered nothing
get_amounts_out(amount_in, amounts_out) ==
    IF amounts_out > 0 /\ price_in_bound(amount_in, amounts_out) THEN amounts_out ELSE 0

\* production scanner get_router_price: amounts[-1] as the router gave it, None (0)
\* when the call raised
get_router_price(amount_in, amounts_out) == amounts_out

\* dex_names = list(dex_prices.keys()): the venues that returned a quote, in dict order
dex_names(prices) == SelectSeq(dex_routers, LAMBDA d : prices[d] > 0)

RECURSIVE PairSeq(_, _, _)
PairSeq(n, i, j) ==
    IF i >= n THEN << >>
    ELSE IF j > n THEN PairSeq(n, i + 1, i + 2)
    ELSE << <<i, j>> >> \o PairSeq(n, i, j + 1)

RECURSIVE BothDirections(_, _)
BothDirections(names, pairs) ==
    IF pairs = << >> THEN << >>
    ELSE LET a == names[Head(pairs)[1]]
             b == names[Head(pairs)[2]]
         IN  << [buy |-> a, sell |-> b, direction |-> 1],
                [buy |-> b, sell |-> a, direction |-> 2] >>
             \o BothDirections(names, Tail(pairs))

Candidates_with_self(prices) ==
    IF Len(dex_names(prices)) >= 2
    THEN BothDirections(dex_names(prices),
                        << <<1, 1>> >> \o PairSeq(Len(dex_names(prices)), 1, 2))
    ELSE << >>

\* the candidates the loops visit, in order; none when fewer than two venues answered
Candidates(prices) ==
    IF Len(dex_names(prices)) >= 2
    THEN BothDirections(dex_names(prices), PairSeq(Len(dex_names(prices)), 1, 2))
    ELSE << >>

reverse_amount_naive(prices, c, amount_in) == amount_in

\* amount passed to the sell-leg quote of candidate c: the amount_out the buy venue quoted
reverse_amount_in(prices, c, amount_in) == prices[c.buy]

next_pair_no_break(pair, executed) == pair + 1

\* the pair loop of a scan cycle after the scan of a pair has returned executed:
\* `break` leaves the loop, otherwise the next pair follows
next_pair(pair, executed) == IF executed THEN NumPairs + 1 ELSE pair + 1

\* where the loops go on after a throttled candidate: `continue` leaves the body of
\* the j loop in main.py, the else branch of main_optimized.py falls through
after_throttle(s, c, i) == IF s = "main" /\ c.direction = 1 THEN i + 2 ELSE i + 1

after_failure_retry(i) == i

\* where the loops go on after a failed execution: the branch ends and the next
\* candidate follows
after_failure(i) == i + 1


(***************************************************************************)
(* unified_arbitrage_scanner.py.  Prices (quote token per base token) are  *)
(* held as integers, price * 1000.  profit_percentage of a                 *)
(* UnifiedOpportunity is a number of percent (0.5 means 0.5 %), held like  *)
(* every float as the number * 10^6.                                       *)
(***************************************************************************)
\* ((high - low) / low) * 100
percent_gain(high, low) == (((high - low) * 100 * 1000) \div low) * 1000

\* amount_in = int(1e18): one token
unified_amount_in == 200000

\* max(cex_prices, key=bid) and min(cex_prices, key=ask): the first extremal element
RECURSIVE best_cex_bid(_)
best_cex_bid(cex_prices) ==
    IF Len(cex_prices) = 1 THEN cex_prices[1]
    ELSE LET r == best_cex_bid(Tail(cex_prices))
         IN  IF r.bid > cex_prices[1].bid THEN r ELSE cex_prices[1]

RECURSIVE best_cex_ask(_)
best_cex_ask(cex_prices) ==
    IF Len(cex_prices) = 1 THEN cex_prices[1]
    ELSE LET r == best_cex_ask(Tail(cex_prices))
         IN  IF r.ask < cex_prices[1].ask THEN r ELSE cex_prices[1]

UnifiedOpportunity(type, pct, buy_venue, sell_venue, buy_price, sell_price) ==
    [ type |-> type, amount_in |-> unified_amount_in, profit_percentage |-> pct,
      buy_venue |-> buy_venue, sell_venue |-> sell_venue,
      buy_price |-> buy_price, sell_price |-> sell_price ]

\* find_cex_dex_opportunities for one pair; dex_price = 0 stands for None
find_cex_dex_opportunities(cex_prices, dex_price) ==
    IF cex_prices = << >> \/ dex_price = 0 THEN << >>
    ELSE IF best_cex_ask(cex_prices).ask = 0
    THEN << >>                      \* ZeroDivisionError: `except` skips the pair
    ELSE LET ask == best_cex_ask(cex_prices)
             bid == best_cex_bid(cex_prices)
             net1 == percent_gain(dex_price, ask.ask) - 800000
             net2 == percent_gain(bid.bid, dex_price) - 800000
         IN  (IF dex_price > ask.ask /\ net1 > 200000
              THEN << UnifiedOpportunity("CEX_DEX", net1, ask.exchange, "DEX",
                                         ask.ask, dex_price) >>
              ELSE << >>)
             \o
             (IF bid.bid > dex_price /\ net2 > 200000
              THEN << UnifiedOpportunity("DEX_CEX", net2, "DEX", bid.exchange,
                                         dex_price, bid.bid) >>
              ELSE << >>)

RECURSIVE cex_cex_pairs(_, _)
cex_cex_pairs(cex_prices, pairs) ==
    IF pairs = << >> THEN << >>
    ELSE LET price_a == cex_prices[Head(pairs)[1]]
             price_b == cex_prices[Head(pairs)[2]]
             net1 == percent_gain(price_b.bid, price_a.ask) - 500000
             net2 == percent_gain(price_a.bid, price_b.ask) - 500000
         \* a division by an ask of 0 raises, and `except` leaves the loops with what
         \* has been appended so far
         IN  IF price_b.bid > price_a.ask /\ price_a.ask = 0 THEN << >>
             ELSE
             (IF price_b.bid > price_a.ask /\ net1 > 300000
              THEN << UnifiedOpportunity("CEX_CEX", net1, price_a.exchange,
                                         price_b.exchange, price_a.ask, price_b.bid) >>
              ELSE << >>)
             \o
             (IF price_a.bid > price_b.ask /\ price_b.ask = 0 THEN << >>
              ELSE
              (IF price_a.bid > price_b.ask /\ net2 > 300000
               THEN << UnifiedOpportunity("CEX_CEX", net2, price_b.exchange,
                                          price_a.exchange, price_b.ask, price_a.bid) >>
               ELSE << >>)
              \o cex_cex_pairs(cex_prices, Tail(pairs)))

\* find_cex_cex_opportunities for one pair
find_cex_cex_opportunities(cex_prices) ==
    IF Len(cex_prices) < 2 THEN << >>
    ELSE cex_cex_pairs(cex_prices, PairSeq(Len(cex_prices), 1, 2))

\* list.sort(key=profit_percentage, reverse=True): stable, descending
RECURSIVE insert_sorted(_, _)
insert_sorted(opp, sorted) ==
    IF sorted = << >> THEN << opp >>
    ELSE IF Head(sorted).profit_percentage >= opp.profit_percentage
         THEN << Head(sorted) >> \o insert_sorted(opp, Tail(sorted))
         ELSE << opp >> \o sorted

RECURSIVE sort_by_profit(_)
sort_by_profit(opps) ==
    IF opps = << >> THEN << >>
    ELSE insert_sorted(opps[Len(opps)], sort_by_profit(SubSeq(opps, 1, Len(opps) - 1)))

get_top_opportunities(all_opps, limit) ==
    SubSeq(sort_by_profit(all_opps), 1,
           IF Len(all_opps) < limit THEN Len(all_opps) ELSE limit)

(***************************************************************************)
(* main_enhanced.py: process_opportunities and execute_opportunity.        *)
(***************************************************************************)
is_executable_any(opp) == TRUE

is_executable(opp) == opp.type \in {"CEX_DEX", "DEX_CEX", "DEX_DEX"}

get_min_threshold(opportunity_type) ==
    IF opportunity_type \in {"CEX_DEX", "DEX_CEX"}
    THEN EnhancedConfig.min_profit_threshold_cex_dex
    ELSE IF opportunity_type = "CEX_CEX"
         THEN EnhancedConfig.min_profit_threshold_cex_cex
         ELSE EnhancedConfig.min_profit_threshold_dex_dex

\* the value execute_opportunity returns
execute_opportunity(opp, is_live) ==
    IF ~is_live THEN TRUE                                   \* [SIMULATION]
    ELSE IF opp.type \in {"CEX_DEX", "DEX_CEX"} THEN TRUE   \* "simulated execution"
    ELSE IF opp.type = "DEX_DEX" THEN TRUE                  \* _execute_dex_arbitrage
    ELSE FALSE

\* the condition of `if (executable and ... and time.time() - ... >= ...)`
should_execute(opp, t, last) ==
    /\ is_executable(opp)
    /\ opp.profit_percentage >= EnhancedConfig.immediate_execution_threshold
    /\ t - last >= EnhancedConfig.min_execution_interval

(***************************************************************************)
(* production_flashloan_scanner.py: find_arbitrage_opportunities.          *)
(***************************************************************************)
ProductionConfig ==
    [ min_profit_threshold |-> 10000,      \* 0.01
      max_profit_threshold |-> 50000,      \* 0.05
      estimated_gas        |-> 300000 ]

\* flashloan_amount = min(int(smaller_reserve * 0.05), int(1000 * 1e18)) of a pair
\* whose smaller reserve is 20000 tokens or more: 1000 tokens
flashloan_amount == 1000 * 200000

RECURSIVE OneDirection(_, _)
OneDirection(names, pairs) ==
    IF pairs = << >> THEN << >>
    ELSE << [buy |-> names[Head(pairs)[1]], sell |-> names[Head(pairs)[2]]] >>
         \o OneDirection(names, Tail(pairs))

\* the (dex_buy, dex_sell) pairs the i, j loops visit; none with fewer than two quotes
ProductionCandidates(prices) ==
    IF Len(dex_names(prices)) < 2 THEN << >>
    ELSE OneDirection(dex_names(prices), PairSeq(Len(dex_names(prices)), 1, 2))

\* the locals of the "Calculate profit" block; gas_price in gwei, one amount unit is
\* 5000 gwei
production_profit(amount, return_amount, gas_price) ==
    LET gross_profit == return_amount - amount
        fee == (amount * 3) \div 1000                   \* int(flashloan_amount * 0.003)
        estimated_gas_cost_wei == (ProductionConfig.estimated_gas * gas_price) \div 5000
    IN  [ principal      |-> amount,
          final_amount   |-> return_amount,
          flashloan_fee  |-> fee,
          venue_fees     |-> 0,
          gas_cost       |-> estimated_gas_cost_wei,
          net_profit     |-> gross_profit - fee,
          compared       |-> gross_profit \div (amount \div PctScale) ]

\* the condition under which a FlashloanOpportunity is appended
production_accepts(calc) ==
    /\ calc.compared >= ProductionConfig.min_profit_threshold
    /\ calc.compared <= ProductionConfig.max_profit_threshold
    /\ calc.net_profit > 0

(***************************************************************************)
(* cex_trading_api.py and execute_cex_arbitrage of                         *)
(* unified_arbitrage_scanner.py.  Order quantities are floats of the       *)
(* source held as the number * 1000.                                       *)
(***************************************************************************)
\* exchanges of _load_api_keys the model keeps: the two with an order implementation and
\* one of those without
CexExchanges == {"Binance", "Bybit", "OKX"}

max_trade_amount == [ BTC |-> 100, ETH |-> 2000, BNB |-> 10000, USDT |-> 5000000 ]

min_trade_amount == [ BTC |-> 1, ETH |-> 10, BNB |-> 100, USDT |-> 10000 ]

validate_trade_amount(currency, amount) ==
    min_trade_amount[currency] <= amount /\ amount <= max_trade_amount[currency]

TradeResult(success, amount, executed_amount) ==
    [ is_none |-> FALSE, success |-> success, amount |-> amount,
      executed_amount |-> executed_amount ]

\* Python None where a TradeResult is expected
None == [ is_none |-> TRUE, success |-> FALSE, amount |-> 0, executed_amount |-> 0 ]

place_market_order_unchecked(api, exchange, currency, amount) ==
    IF exchange \in {"Binance", "Bybit"} THEN "post" ELSE "none"

\* what place_market_order does before any request leaves the process
place_market_order(api, exchange, currency, amount) ==
    IF ~api.trading_enabled \/ exchange \notin api.enabled THEN "not_enabled"
    ELSE IF ~validate_trade_amount(currency, amount) THEN "outside_limits"
    ELSE IF exchange \in {"Binance", "Bybit"} THEN "post"
    ELSE "none"                     \* no branch for the exchange: falls off the end

\* the TradeResult _place_binance_order / _place_bybit_order builds from a 200 answer
\* that reports the quantity `filled`
order_success(exchange, amount, filled) ==
    IF exchange = "Binance" THEN TradeResult(TRUE, amount, filled)   \* executedQty
    ELSE TradeResult(TRUE, amount, 0)                                \* executed_amount=0

buy_failed_never(buy_result) == FALSE

\* `if not buy_result.success: return buy_result, None`
buy_failed(buy_result) == ~buy_result.success

\* `if buy_result.success and sell_result and sell_result.success`
cex_success(buy_result, sell_result) ==
    buy_result.success /\ ~sell_result.is_none /\ sell_result.success

after_sell_failure_reversing(calls, run) ==
    Append(calls, [ exchange |-> run.buy_venue, side |-> "sell",
                    amount |-> run.buy_result.executed_amount, sent |-> TRUE ])

\* `if not sell_result.success:` of CexTradingAPI.execute_cex_arbitrage: the failure
\* is logged and the orders placed stay as they are
after_sell_failure(calls, run) == calls

check_arbitrage_feasibility_unchecked(buy_available, sell_available, amount) == TRUE

\* check_arbitrage_feasibility: available balances as the float * 1000, -1 for the
\* balance get_balance could not fetch (None); the buy side needs amount * 1.1
check_arbitrage_feasibility(buy_available, sell_available, amount) ==
    /\ ~(buy_available = -1 \/ buy_available * 10 < amount * 11)
    /\ ~(sell_available = -1 \/ sell_available < amount)

NoCex ==
    [ type |-> "none", token_in_symbol |-> "none", buy_venue |-> "none",
      sell_venue |-> "none", amount |-> 0, buy_result |-> None, sell_result |-> None,
      buy_filled |-> 0, sell_filled |-> 0, result |-> "none",
      buy_price |-> 0, buy_available |-> 0, sell_available |-> 0 ]

(***************************************************************************)
(* Inputs: what the venues and the chain answer.                           *)
(***************************************************************************)
\* amount_out a router returns for amount_in of token_in; 0 stands for None
ForwardOut(d) ==
    CASE d = "PancakeSwap" -> 30100
      [] d = "Biswap"      -> 30200
      [] OTHER             -> 30300

ForwardQuotes == {p \in [DexSet -> {0, 30100, 30200, 30300}] :
                    \A d \in DexSet : p[d] \in {0, ForwardOut(d)}}

\* what the routers answer the production scanner for the borrowed amount: nothing, the
\* usual amount, or next to nothing out of a drained pool
RouterAnswers == {p \in [DexSet -> {0, 100, 30100, 30200, 30300}] :
                    \A d \in DexSet : p[d] \in {0, 100, ForwardOut(d)}}

\* gain of the round trip over amount_in, one per outcome of the profit checks
Gains(s) == IF s = "main" THEN {206, 207, 266, 406} ELSE {303, 304, 403, 653}

\* final amounts the sell-leg quote may return; 0 stands for None
ReverseQuotes(s, amount_in) == {0} \cup {amount_in + g : g \in Gains(s)}

\* nothing evaluated yet in this scan
NoScan == [ found |-> << >>, best |-> 0, evaluated |-> {} ]

\* the sell-leg quote of candidate c was requested
log_visit(log, c) == [log EXCEPT !.evaluated = @ \cup {<<c.buy, c.sell>>}]

\* one more candidate evaluated: its profit, and whether an Opportunity was built
log_candidate(log, pct, built) ==
    [ found     |-> IF built THEN Append(log.found, pct) ELSE log.found,
      best      |-> IF pct > log.best THEN pct ELSE log.best,
      evaluated |-> log.evaluated ]

NoOpportunity ==
    [ dex_buy |-> "none", dex_sell |-> "none", amount_in |-> 0, amount_out_buy |-> 0,
      amount_out_sell |-> 0, profit_percentage |-> 0 ]

NoRequest == [ dex |-> "none", amount_in |-> 0 ]

\* what GET /ticker/bookTicker of Binance may come to: the request raises (transport
\* error, timeout), the status is not 200, the body lacks the prices, or it has them;
\* an order book without orders is answered with prices of 0
BinanceResponses ==
    { [kind |-> "raised", bidPrice |-> 0, askPrice |-> 0],
      [kind |-> "status", bidPrice |-> 0, askPrice |-> 0],
      [kind |-> "malformed", bidPrice |-> 0, askPrice |-> 0],
      [kind |-> "ok", bidPrice |-> 1248, askPrice |-> 1250],
      [kind |-> "ok", bidPrice |-> 0, askPrice |-> 0] }

\* _get_binance_price: the CexPrice of a well-formed answer, else None (no element)
get_binance_price(response) ==
    IF response.kind = "ok"
    THEN << [exchange |-> "Binance", bid |-> response.bidPrice,
             ask |-> response.askPrice] >>
    ELSE << >>

\* bookTicker answers of the exchanges; the exchange is missing from the list when its
\* request failed
BinanceTickers == { get_binance_price(response) : response \in BinanceResponses }
BybitTickers == { << >>, << [exchange |-> "Bybit", bid |-> 1262, ask |-> 1264] >>,
                  << [exchange |-> "Bybit", bid |-> 1270, ask |-> 1272] >> }
CexPriceLists == { a \o b : a \in BinanceTickers, b \in BybitTickers }

\* get_dex_price answers for one token of the base asset; 0 stands for None
DexPrices == {0, 1250, 1265, 1275}

\* no ticker has been fetched yet
NoCexPrices == [ cex_dex |-> << >>, dex_price |-> 0, cex_cex |-> << >> ]

NoUnifiedOpportunity == UnifiedOpportunity("none", 0, "none", "none", 0, 0)

\* production scanner: return_amount of the sell-leg quote, by gross gain in per mille
\* of the borrowed amount; 0 stands for None
ReturnAmounts ==
    {0, flashloan_amount}
        \cup {flashloan_amount + (flashloan_amount \div 1000) * m : m \in {5, 10, 50, 60}}

\* self.w3.eth.gas_price, in gwei
GasPrices == {5, 10}

\* opportunities handed to execute_cex_arbitrage; amount_in = int(1e18)
CexOpportunities ==
    { [ type |-> t, token_in_symbol |-> c, buy_venue |-> b, sell_venue |-> s ] :
        t \in {"CEX_CEX", "CEX_DEX"}, c \in {"BNB", "BTC"},
        b \in CexExchanges, s \in CexExchanges }

\* the ask of the base currency on the buy exchange, in USDT
BuyPrices == [ BNB |-> 300, BTC |-> 60000 ]

\* free balances the exchanges report, * 1000: of the quote currency on the buy
\* exchange (none fetched, 2 USDT, 400 USDT) and of the base currency on the sell
\* exchange (nothing, one unit)
QuoteBalances == {-1, 2000, 400000}
BaseBalances == {0, 1000}

\* executedQty an exchange may report for an order of `amount`
FillQuantities(amount) == {amount, amount \div 2, amount \div 20}

\* environments of CexTradingAPI.__init__: ENABLE_CEX_TRADING and the API keys present
TradingApis ==
    { [ trading_enabled |-> g /\ e # {}, enabled |-> e ] :
        g \in BOOLEAN, e \in SUBSET CexExchanges }

\* amount_in = int(self.base_trade_amount * 1e18) of the scan loop
scan_amount_in(s) == Config(s).base_trade_amount

(***************************************************************************)
(* execute_arbitrage_trade: the values it may return.                      *)
(***************************************************************************)
\* what the chain does with the transaction of a live execution of main.py: the
\* receipt has status 1 or 0, wait_for_transaction_receipt runs into its timeout, or
\* an earlier call fails (no pair, send error); "none" when nothing is sent
ChainOutcomes(s, is_live) ==
    IF is_live /\ s = "main" THEN {"confirmed", "reverted", "timeout", "error"}
    ELSE {"none"}

NoExternal ==
    [ receipt |-> "none", buy |-> "none", sell |-> "none",
      buyRouter |-> "none", sellRouter |-> "none", borrowed |-> 0 ]

\* actual_amount_in = int(self.trade_amount_tokens * 1e18): the amount0Out or
\* amount1Out of executeFlashloan
actual_amount_in(tokens) == tokens

\* the router arguments of executeFlashloan, a router named by its venue: sell_router
\* is looked up under dex_buy and buy_router under dex_sell
executeFlashloan(opp) == [ buyRouter |-> opp.dex_sell, sellRouter |-> opp.dex_buy ]

execute_arbitrage_trade_unless_reverted(s, is_live, outcome) ==
    IF ~is_live THEN TRUE
    ELSE IF s = "main" THEN outcome \notin {"reverted", "error"}
    ELSE TRUE

execute_arbitrage_trade(s, is_live, outcome) ==
    IF ~is_live THEN TRUE                       \* [SIMULATION]
    ELSE IF s = "main" THEN outcome = "confirmed"   \* receipt.status == 1
    ELSE TRUE                                   \* main_optimized.py: "simulate success"

(***************************************************************************)
(* The classification of one set of quotes: the round trip of main.py      *)
(* (profit, tier, trade size) or the sorted list of the unified scanner.   *)
(***************************************************************************)
\* sets of quotes: a round trip over two venues (amount_in, the amount_out of the buy
\* venue, the final amount of the sell venue), or the ticker lists of the exchanges
DexQuoteSets ==
    { [ kind |-> "dex", dex_buy |-> b, dex_sell |-> v, amount_in |-> a,
        amount_out_buy |-> (a * 101) \div 100, final_amount |-> (a * m) \div 1000,
        cex_prices |-> << >> ] :
        b \in DexSet, v \in DexSet, a \in {20000, 40000},
        m \in {1000, 1006, 1010, 1015, 1030} }

CexQuoteSets ==
    { [ kind |-> "cex", dex_buy |-> "none", dex_sell |-> "none", amount_in |-> 0,
        amount_out_buy |-> 0, final_amount |-> 0, cex_prices |-> l ] :
        l \in CexPriceLists }

NoClassification ==
    [ dex_buy |-> "none", dex_sell |-> "none", profit_percentage |-> 0,
      built |-> FALSE, tier |-> "NONE", trade_amount |-> 0, top |-> << >> ]

NoClassified ==
    [ quotes |-> [ kind |-> "none" ], first |-> NoClassification,
      second |-> NoClassification, runs |-> 0 ]

classify_throttled(s, quotes, last) ==
    LET pct == real_profit_percentage(s, quotes.amount_in, quotes.final_amount)
    IN  [ dex_buy |-> quotes.dex_buy, dex_sell |-> quotes.dex_sell,
          profit_percentage |-> pct,
          built |-> profit_check(s, quotes.amount_in, quotes.final_amount),
          tier |-> IF last = 0 THEN execution_tier(s, pct) ELSE "NONE",
          trade_amount |-> get_dynamic_trade_amount(s, pct), top |-> << >> ]

\* what the classifier makes of a set of quotes while self.last_execution_time is
\* last: profit, tier and trade size are computed before the cooldown is looked at
classify(s, quotes, last) ==
    IF quotes.kind = "dex"
    THEN LET pct == real_profit_percentage(s, quotes.amount_in, quotes.final_amount)
         IN  [ dex_buy |-> quotes.dex_buy, dex_sell |-> quotes.dex_sell,
               profit_percentage |-> pct,
               built |-> profit_check(s, quotes.amount_in, quotes.final_amount),
               tier |-> execution_tier(s, pct),
               trade_amount |-> get_dynamic_trade_amount(s, pct), top |-> << >> ]
    ELSE [ NoClassification EXCEPT
             !.top = get_top_opportunities(
                         find_cex_cex_opportunities(quotes.cex_prices), 10) ]

(***************************************************************************)
(* cex_price_provider.py: the session of CexPriceProvider, shared by the   *)
(* tasks find_all_opportunities gathers.  A session is named by the number *)
(* of the __aenter__ that created it; 0 stands for None.                   *)
(***************************************************************************)
\* the tasks of asyncio.gather, in the order they are started
ScanTasks == <<"find_cex_dex_opportunities", "find_cex_cex_opportunities">>

TaskSet == {ScanTasks[i] : i \in 1..Len(ScanTasks)}

\* CexPriceProvider.__init__, and no task started yet
NoProvider ==
    [ session |-> 0, created |-> 0, closed |-> {},
      task |-> [t \in TaskSet |-> [at |-> "start", entered |-> 0, requests |-> 0,
                                   used |-> 0]] ]

\* __aenter__: a new ClientSession is stored in self.session
aenter(p, t) ==
    [p EXCEPT !.session = p.created + 1, !.created = p.created + 1,
              !.task[t].at = "inside", !.task[t].entered = p.created + 1]

\* __aexit__: `if self.session: await self.session.close()`
aexit(p, t) ==
    [p EXCEPT !.closed = IF p.session # 0 THEN @ \cup {p.session} ELSE @,
              !.task[t].at = "done"]

\* a price request of get_all_prices: self.session.get(url)
session_get(p, t) ==
    [p EXCEPT !.task[t].requests = @ + 1, !.task[t].used = p.session]

(***************************************************************************)
(* unified_arbitrage_scanner.py: get_dex_price and its cache.  A price is  *)
(* held as amount_out * 1000 \div amount_in; times are in seconds.         *)
(***************************************************************************)
cache_expiry == 10

\* the requests get_dex_price is called with: token_in, token_out, amount_in
DexRequests == { <<"BNB", "USDT", 1>>, <<"BNB", "USDT", 2>> }

cache_key_without_amount(token_in, token_out, amount_in) == <<token_in, token_out>>

\* cache_key = f"{token_in_address}-{token_out_address}-{amount_in}"
cache_key(token_in, token_out, amount_in) == <<token_in, token_out, amount_in>>

\* what dex_scanner.get_quote comes to: it raises, returns None, or returns a dict
\* with this amount_out per unit of amount_in (0 and -1: an empty pool, a bad answer)
QuoteOutcomes ==
    {[kind |-> "raised", per_unit |-> 0], [kind |-> "none", per_unit |-> 0]}
    \cup {[kind |-> "quote", per_unit |-> a] : a \in {-1, 0, 300}}

is_fresh_always(t, timestamp) == TRUE

\* `if current_time - cached_data['timestamp'] < self.cache_expiry`
is_fresh(t, timestamp) == t - timestamp < cache_expiry

\* self.dex_price_cache = {}, and no call yet
NoDexCache ==
    [ time |-> 0, entries |-> {},
      last |-> [ kind |-> "none", request |-> << >>, price |-> 0, age |-> 0,
                 stored_for |-> << >> ] ]

\* the dict as the set of its entries, one per key; an entry also keeps (history)
\* the request it was stored for and its amount_out
cached(entries, key) == \E e \in entries : e.key = key

cached_data(entries, key) == CHOOSE e \in entries : e.key = key

store(entries, entry) == {e \in entries : e.key # entry.key} \cup {entry}

(***************************************************************************)
(* enhanced_telegram_bot.py: the counters of ArbitrageStats and the        *)
(* commands.                                                               *)
(***************************************************************************)
\* ArbitrageStats(...): every counter at its default
ArbitrageStats ==
    [ total_opportunities_found |-> 0, cex_cex_opportunities |-> 0,
      cex_dex_opportunities |-> 0, dex_dex_opportunities |-> 0,
      total_trades_executed |-> 0, successful_trades |-> 0, failed_trades |-> 0,
      scans_completed |-> 0 ]

\* the texts of the messages check_commands hands to handle_command
BotCommands == {"/stats", "/help", "/status", "/reset", "/unknown", "hello"}

handle_command_resetting(st, text) == ArbitrageStats

\* handle_command: only /reset replaces the statistics (reset_stats)
handle_command(st, text) ==
    IF text = "/reset" THEN ArbitrageStats ELSE st

notify_opportunity_found(st, opportunity_type, notify_opportunities) ==
    IF ~notify_opportunities THEN st
    ELSE LET counted == [st EXCEPT !.total_opportunities_found = @ + 1]
         IN  IF opportunity_type = "CEX_CEX"
             THEN [counted EXCEPT !.cex_cex_opportunities = @ + 1]
             ELSE IF opportunity_type = "CEX_DEX"
             THEN [counted EXCEPT !.cex_dex_opportunities = @ + 1]
             ELSE IF opportunity_type = "DEX_DEX"
             THEN [counted EXCEPT !.dex_dex_opportunities = @ + 1]
             ELSE counted

notify_trade_executed(st, success, notify_trades) ==
    IF ~notify_trades THEN st
    ELSE IF success
    THEN [st EXCEPT !.total_trades_executed = @ + 1, !.successful_trades = @ + 1]
    ELSE [st EXCEPT !.total_trades_executed = @ + 1, !.failed_trades = @ + 1]

update_scan_stats(st) == [st EXCEPT !.scans_completed = @ + 1]

(***************************************************************************)
(* The state machine.                                                      *)
(***************************************************************************)
Init ==
    /\ scanner \in {"main", "optimized", "enhanced", "production", "cex",
                    "quotes", "cex_prices", "restart", "bot", "classify",
                    "sessions", "dex_cache"}
    /\ live \in IF scanner \in {"main", "optimized", "enhanced"} THEN BOOLEAN ELSE {FALSE}
    /\ now = StartTime
    /\ last_execution_time = 0
    /\ pc = "Idle"
    /\ dex_prices = [d \in DexSet |-> 0]
    /\ k = 0
    /\ opportunity = NoOpportunity
    /\ current_time = 0
    /\ trade_amount_tokens = IF scanner = "classify" THEN MainConfig.base_trade_amount
                             ELSE IF scanner \in {"main", "optimized"}
                             THEN Config(scanner).base_trade_amount
                             ELSE 0
    /\ stats = IF scanner = "enhanced"
               THEN [ cex_dex_opportunities |-> 0, cex_cex_opportunities |-> 0,
                      dex_dex_opportunities |-> 0, immediate_executions |-> 0,
                      trades_attempted |-> 0, trades_successful |-> 0 ]
               ELSE [ opportunities_found |-> 0, immediate_executions |-> 0,
                      trades_attempted |-> 0, trades_successful |-> 0 ]
    /\ event = "START"
    /\ reverse_request = NoRequest
    /\ top_opportunities = << >>
    /\ prev_invoke_time = -1
    /\ profit_calc = NoCalc
    /\ trading_api \in IF scanner = "cex" THEN TradingApis
                        ELSE {[ trading_enabled |-> FALSE, enabled |-> {} ]}
    /\ cex = NoCex
    /\ place_calls = << >>
    /\ returned = [ nothing_bought |-> {}, one_leg |-> {} ]
    /\ scan_log = NoScan
    /\ cex_quotes = NoCexPrices
    /\ clock = StartClock
    /\ last_request_time = 0
    /\ last_request_times = << >>
    /\ issued = [v \in DexSet \cup PriceExchanges |-> [prev |-> 0, last |-> 0]]
    /\ external = NoExternal
    /\ telegram = {}
    /\ restarts = 0
    /\ bot_stats = ArbitrageStats
    /\ classified = NoClassified
    /\ cycle = [ pair |-> 1, executed |-> 0 ]
    /\ provider = NoProvider
    /\ dex_cache = NoDexCache

\* time passes
Tick ==
    /\ scanner \in {"main", "optimized", "enhanced"}
    /\ now < MaxTime
    /\ now' = now + TickStep
    /\ UNCHANGED <<cycle, serviceVars, scanner, live, last_execution_time, pc, dex_prices, k, opportunity,
                   current_time, trade_amount_tokens, stats, event, reverse_request,
                   top_opportunities, prev_invoke_time, profit_calc, cexVars, scan_log,
                   cex_quotes, limiterVars, external, telegram>>

\* _scan_pair_and_execute_immediately, up to the candidate loops: one quote per venue
StartScan ==
    /\ scanner \in {"main", "optimized"}
    /\ pc = "Idle"
    /\ cycle.pair <= NumPairs
    /\ \E answers \in ForwardQuotes :
        LET prices == [d \in DexSet |->
                         get_amounts_out(scan_amount_in(scanner), answers[d])]
        IN
        /\ dex_prices' = prices
        /\ IF Len(Candidates(prices)) = 0
           THEN /\ pc' = "Idle"              \* return False
                /\ k' = 0
                /\ event' = "INSUFFICIENT"
                /\ cycle' = [cycle EXCEPT !.pair = next_pair(@, FALSE)]
           ELSE /\ pc' = "Scanning"
                /\ k' = 1
                /\ event' = "SCAN"
                /\ UNCHANGED cycle
    /\ opportunity' = NoOpportunity
    /\ reverse_request' = NoRequest
    /\ profit_calc' = NoCalc
    /\ scan_log' = NoScan
    /\ external' = NoExternal
    /\ UNCHANGED <<serviceVars, scanner, live, now, last_execution_time, current_time,
                   trade_amount_tokens, stats, top_opportunities, prev_invoke_time,
                   cexVars, cex_quotes, limiterVars, telegram>>

\* the loops go on with candidate i, or the scan returns False after the last one
GoOn(i) ==
    IF i > Len(Candidates(dex_prices))
    THEN /\ pc' = "Idle"                     \* return False
         /\ k' = 0
         /\ dex_prices' = [d \in DexSet |-> 0]
         /\ cycle' = [cycle EXCEPT !.pair = next_pair(@, FALSE)]
    ELSE /\ pc' = "Scanning"
         /\ k' = i
         /\ UNCHANGED <<dex_prices, cycle>>

\* the body of the loops for one candidate: sell-leg quote, profit, tier, cooldown
EvalCandidate ==
    /\ scanner \in {"main", "optimized"}
    /\ pc = "Scanning"
    /\ stats.opportunities_found < MaxFound
    /\ LET c == Candidates(dex_prices)[k]
           amount_in == scan_amount_in(scanner)
           amount_out_step1 == reverse_amount_in(dex_prices, c, amount_in)
       IN  \E answer \in ReverseQuotes(scanner, amount_in) :
            LET final_amount == get_amounts_out(amount_out_step1, answer)
                pct == real_profit_percentage(scanner, amount_in, final_amount)
                opp == [ dex_buy |-> c.buy, dex_sell |-> c.sell, amount_in |-> amount_in,
                         amount_out_buy |-> amount_out_step1,
                         amount_out_sell |-> final_amount,
                         profit_percentage |-> pct ]
            IN
            /\ reverse_request' = [ dex |-> c.sell, amount_in |-> amount_out_step1 ]
            /\ profit_calc' = IF final_amount = 0 THEN NoCalc
                              ELSE calculate_fees(scanner, amount_in, final_amount)
            /\ scan_log' = IF final_amount = 0 THEN log_visit(scan_log, c)
                           ELSE log_candidate(log_visit(scan_log, c), pct,
                                              profit_check(scanner, amount_in, final_amount))
            /\ IF final_amount = 0
               THEN /\ event' = "NOQUOTE"
                    /\ opportunity' = NoOpportunity
                    /\ telegram' = {}
                    /\ GoOn(k + 1)
                    /\ UNCHANGED <<current_time, trade_amount_tokens, stats>>
               ELSE IF ~profit_check(scanner, amount_in, final_amount)
               THEN /\ event' = "BELOW_MIN"
                    /\ opportunity' = NoOpportunity
                    /\ telegram' = {}
                    /\ GoOn(k + 1)
                    /\ UNCHANGED <<current_time, trade_amount_tokens, stats>>
               ELSE IF ~qualifies(scanner, pct)
               THEN /\ event' = "QUEUED"
                    /\ opportunity' = opp
                    /\ telegram' = {}
                    /\ stats' = [stats EXCEPT !.opportunities_found = @ + 1]
                    /\ GoOn(k + 1)
                    /\ UNCHANGED <<current_time, trade_amount_tokens>>
               ELSE IF ~cooldown_elapsed(scanner, now, last_execution_time)
               THEN /\ event' = "THROTTLED"
                    /\ opportunity' = opp
                    /\ telegram' = {"send_opportunity_found"}
                    /\ stats' = [stats EXCEPT !.opportunities_found = @ + 1]
                    /\ GoOn(after_throttle(scanner, c, k))
                    /\ UNCHANGED <<current_time, trade_amount_tokens>>
               ELSE /\ event' = "EXECUTING"
                    /\ opportunity' = opp
                    /\ telegram' = {"send_opportunity_found"}
                    /\ current_time' = now
                    /\ stats' = [stats EXCEPT !.opportunities_found = @ + 1,
                                              !.immediate_executions = @ + 1]
                    /\ trade_amount_tokens' = get_dynamic_trade_amount(scanner, pct)
                    /\ pc' = "Executing"
                    /\ UNCHANGED <<k, dex_prices, cycle>>
    /\ UNCHANGED <<serviceVars, scanner, live, now, last_execution_time, top_opportunities,
                   prev_invoke_time, cexVars, cex_quotes, limiterVars, external>>

\* execute_arbitrage_trade returns, and the scan handles its result
ExecComplete ==
    /\ scanner \in {"main", "optimized"}
    /\ pc = "Executing"
    /\ \E outcome \in ChainOutcomes(scanner, live) :
        LET success == execute_arbitrage_trade(scanner, live, outcome)
        IN
        /\ external' = IF outcome \in {"none", "error"}
                       THEN [NoExternal EXCEPT !.receipt = outcome]
                       ELSE [external EXCEPT
                               !.receipt = outcome,
                               !.buyRouter = executeFlashloan(opportunity).buyRouter,
                               !.sellRouter = executeFlashloan(opportunity).sellRouter,
                               !.borrowed = actual_amount_in(trade_amount_tokens)]
        /\ stats' = IF success /\ live
                    THEN [stats EXCEPT !.trades_successful = @ + 1]
                    ELSE stats
        /\ IF success
           THEN /\ event' = "SUCCESS"
                /\ last_execution_time' = current_time
                /\ pc' = "Idle"              \* return True
                /\ k' = 0
                /\ dex_prices' = [d \in DexSet |-> 0]
                /\ cycle' = [ pair |-> next_pair(cycle.pair, TRUE),
                              executed |-> cycle.executed + 1 ]
           ELSE /\ event' = "FAILED"
                /\ GoOn(after_failure(k))
                /\ UNCHANGED last_execution_time
    /\ telegram' = {"send_execution_result"}
    /\ trade_amount_tokens' = Config(scanner).base_trade_amount
    /\ current_time' = 0
    /\ prev_invoke_time' = current_time
    /\ UNCHANGED <<serviceVars, scanner, live, now, opportunity, reverse_request, top_opportunities,
                   profit_calc, cexVars, scan_log, cex_quotes,
                   limiterVars>>

\* the pair loop of a scan cycle is over: scans_completed, the log lines and the sleep
\* follow, and the next cycle starts with the first pair
NextCycle ==
    /\ scanner \in {"main", "optimized"}
    /\ pc = "Idle"
    /\ cycle.pair > NumPairs
    /\ cycle' = [ pair |-> 1, executed |-> 0 ]
    /\ event' = "CYCLE"
    /\ UNCHANGED <<serviceVars, scanner, live, now, last_execution_time, pc, dex_prices, k,
                   opportunity, current_time, trade_amount_tokens, stats,
                   reverse_request, top_opportunities, prev_invoke_time, profit_calc,
                   cexVars, scan_log, cex_quotes, limiterVars, external, telegram>>

\* one pass of run_enhanced_scanning up to process_opportunities: find_all_opportunities
\* runs both finders (each fetches the tickers itself) and get_top_opportunities sorts
EnhScan ==
    /\ scanner = "enhanced"
    /\ pc = "Idle"
    /\ stats.cex_dex_opportunities + stats.cex_cex_opportunities < MaxFound
    /\ \E prices1 \in CexPriceLists, prices2 \in CexPriceLists, dex_price \in DexPrices :
        LET top == get_top_opportunities(
                       find_cex_dex_opportunities(prices1, dex_price)
                       \o find_cex_cex_opportunities(prices2), 10)
        IN  /\ top_opportunities' = top
            /\ cex_quotes' = IF top = << >> THEN NoCexPrices
                             ELSE [ cex_dex |-> prices1, dex_price |-> dex_price,
                                    cex_cex |-> prices2 ]
            /\ reverse_request' = IF prices1 = << >> THEN NoRequest
                                  ELSE [ dex |-> "DEX", amount_in |-> unified_amount_in ]
            /\ IF top = << >>
               THEN pc' = "Idle" /\ k' = 0 /\ event' = "NONE"
               ELSE pc' = "Processing" /\ k' = 1 /\ event' = "SCAN"
    /\ UNCHANGED <<cycle, serviceVars, scanner, live, now, last_execution_time, dex_prices, opportunity,
                   current_time, trade_amount_tokens, stats, prev_invoke_time,
                   profit_calc, cexVars, scan_log, limiterVars, external, telegram>>

\* process_opportunities goes on with list element i, or returns after the last one
EnhGoOn(i) ==
    IF i > Len(top_opportunities)
    THEN pc' = "Idle" /\ k' = 0 /\ top_opportunities' = << >>
         /\ cex_quotes' = NoCexPrices
    ELSE pc' = "Processing" /\ k' = i /\ UNCHANGED <<top_opportunities, cex_quotes>>

count_opportunity(st, opp) ==
    IF opp.type \in {"CEX_DEX", "DEX_CEX"}
    THEN [st EXCEPT !.cex_dex_opportunities = @ + 1]
    ELSE IF opp.type = "CEX_CEX"
         THEN [st EXCEPT !.cex_cex_opportunities = @ + 1]
         ELSE IF opp.type = "DEX_DEX"
              THEN [st EXCEPT !.dex_dex_opportunities = @ + 1]
              ELSE st

\* the body of the loop of process_opportunities up to the call of execute_opportunity
EnhProcess ==
    /\ scanner = "enhanced"
    /\ pc = "Processing"
    /\ LET opp == top_opportunities[k]
       IN  IF opp.profit_percentage < get_min_threshold(opp.type)
           THEN /\ event' = "BELOW_MIN"
                /\ telegram' = {}
                /\ EnhGoOn(k + 1)
                /\ UNCHANGED <<stats, current_time>>
           ELSE IF should_execute(opp, now, last_execution_time)
           THEN /\ event' = "EXECUTING"
                /\ telegram' = {"send_enhanced_opportunity"}
                /\ stats' = count_opportunity(stats, opp)
                /\ current_time' = now
                /\ pc' = "Executing"
                /\ UNCHANGED <<k, top_opportunities, cex_quotes>>
           ELSE /\ event' = IF is_executable(opp) /\ opp.profit_percentage >=
                                 EnhancedConfig.immediate_execution_threshold
                            THEN "THROTTLED" ELSE "NOTIFIED"
                /\ telegram' = {"send_enhanced_opportunity"}
                /\ stats' = count_opportunity(stats, opp)
                /\ EnhGoOn(k + 1)
                /\ UNCHANGED current_time
    /\ UNCHANGED <<cycle, serviceVars, scanner, live, now, last_execution_time, dex_prices, opportunity,
                   trade_amount_tokens, reverse_request, prev_invoke_time,
                   profit_calc, cexVars, scan_log, limiterVars, external>>

\* execute_opportunity returns, and process_opportunities handles its result
EnhExecComplete ==
    /\ scanner = "enhanced"
    /\ pc = "Executing"
    /\ LET success == execute_opportunity(top_opportunities[k], live)
       IN  /\ stats' = [stats EXCEPT
                          !.trades_successful = IF success THEN @ + 1 ELSE @,
                          !.trades_attempted = @ + 1,
                          !.immediate_executions = @ + 1]
           /\ last_execution_time' = IF success THEN now ELSE last_execution_time
           /\ event' = IF success THEN "SUCCESS" ELSE "FAILED"
    /\ telegram' = {}
    /\ EnhGoOn(k + 1)
    /\ current_time' = 0
    /\ prev_invoke_time' = current_time
    /\ UNCHANGED <<cycle, serviceVars, scanner, live, now, dex_prices, opportunity, trade_amount_tokens,
                   reverse_request, profit_calc, cexVars, scan_log, limiterVars, external>>

\* production scanner: the quotes of one direction of one pair
ProdScan ==
    /\ scanner = "production"
    /\ pc = "Idle"
    /\ \E answers \in RouterAnswers :
        LET prices == [d \in DexSet |-> get_router_price(flashloan_amount, answers[d])]
        IN
        /\ dex_prices' = prices
        /\ IF Len(ProductionCandidates(prices)) = 0
           THEN pc' = "Idle" /\ k' = 0 /\ event' = "INSUFFICIENT"     \* continue
           ELSE pc' = "Scanning" /\ k' = 1 /\ event' = "SCAN"
    /\ opportunity' = NoOpportunity
    /\ reverse_request' = NoRequest
    /\ profit_calc' = NoCalc
    /\ scan_log' = NoScan
    /\ UNCHANGED <<cycle, serviceVars, scanner, live, now, last_execution_time, current_time,
                   trade_amount_tokens, stats, top_opportunities, prev_invoke_time,
                   cexVars, cex_quotes, limiterVars, external, telegram>>

ProdGoOn(i) ==
    IF i > Len(ProductionCandidates(dex_prices))
    THEN pc' = "Idle" /\ k' = 0 /\ dex_prices' = [d \in DexSet |-> 0]
    ELSE pc' = "Scanning" /\ k' = i /\ UNCHANGED dex_prices

\* production scanner: the body of the i, j loops for one (dex_buy, dex_sell)
ProdEvaluate ==
    /\ scanner = "production"
    /\ pc = "Scanning"
    /\ LET c == ProductionCandidates(dex_prices)[k]
           target_amount == reverse_amount_in(dex_prices, c, flashloan_amount)
       IN  \E answer \in ReturnAmounts, gas_price \in GasPrices :
            LET return_amount == get_router_price(target_amount, answer)
                calc == production_profit(flashloan_amount, return_amount, gas_price)
            IN  /\ reverse_request' = [ dex |-> c.sell, amount_in |-> target_amount ]
                /\ scan_log' = IF return_amount > flashloan_amount
                               THEN log_candidate(log_visit(scan_log, c), calc.compared,
                                                  production_accepts(calc))
                               ELSE log_visit(scan_log, c)
                /\ IF return_amount = 0
                   THEN event' = "NOQUOTE" /\ profit_calc' = NoCalc
                        /\ opportunity' = NoOpportunity
                   ELSE IF ~(return_amount > flashloan_amount)
                   THEN event' = "NO_PROFIT" /\ profit_calc' = NoCalc
                        /\ opportunity' = NoOpportunity
                   ELSE IF ~production_accepts(calc)
                   THEN event' = "REJECTED" /\ profit_calc' = calc
                        /\ opportunity' = NoOpportunity
                   ELSE /\ event' = "FOUND"
                        /\ profit_calc' = calc
                        /\ opportunity' =
                             [ dex_buy |-> c.buy, dex_sell |-> c.sell,
                               amount_in |-> flashloan_amount,
                               amount_out_buy |-> target_amount,
                               amount_out_sell |-> return_amount,
                               profit_percentage |-> calc.compared ]
    /\ ProdGoOn(k + 1)
    /\ UNCHANGED <<cycle, serviceVars, scanner, live, now, last_execution_time, current_time,
                   trade_amount_tokens, stats, top_opportunities, prev_invoke_time,
                   cexVars, cex_quotes, limiterVars, external, telegram>>

\* execute_cex_arbitrage returns `value` after the place_market_order calls `calls`;
\* the history notes the value when nothing was bought, and when the buy was filled
\* and nothing was sold
CexReturn(run, calls, value) ==
    /\ cex' = [run EXCEPT !.result = value]
    /\ pc' = "Returned"
    /\ place_calls' = calls
    /\ returned' =
         IF run.buy_filled = 0
         THEN [returned EXCEPT !.nothing_bought = @ \cup {value}]
         ELSE IF run.sell_filled = 0
              THEN [returned EXCEPT !.one_leg = @ \cup {value}]
              ELSE returned

\* the sell leg of CexTradingAPI.execute_cex_arbitrage, up to its request
CexPlaceSell(run, calls) ==
    LET amount == run.buy_result.executed_amount
        step == place_market_order(trading_api, run.sell_venue, run.token_in_symbol, amount)
        all == Append(calls, [ exchange |-> run.sell_venue, side |-> "sell",
                               amount |-> amount, sent |-> step = "post" ])
    IN  IF step = "post"
        THEN cex' = run /\ pc' = "SellPending" /\ place_calls' = all /\ UNCHANGED returned
        ELSE IF step = "none"
        THEN CexReturn([run EXCEPT !.sell_result = None], all, "False")  \* AttributeError
        ELSE CexReturn([run EXCEPT !.sell_result = TradeResult(FALSE, amount, 0)],
                       after_sell_failure(all, run), "False")

\* UnifiedArbitrageScanner.execute_cex_arbitrage up to the buy request
CexStart ==
    /\ scanner = "cex"
    /\ pc = "Idle"
    /\ \E opp \in CexOpportunities, buy_available \in QuoteBalances,
          sell_available \in BaseBalances :
        LET trade_amount == 1000                      \* float(amount_in) / 1e18
            feasible == check_arbitrage_feasibility(buy_available, sell_available,
                                                    trade_amount)
            run == [NoCex EXCEPT !.type = opp.type,
                                 !.token_in_symbol = opp.token_in_symbol,
                                 !.buy_venue = opp.buy_venue,
                                 !.sell_venue = opp.sell_venue,
                                 !.amount = trade_amount,
                                 !.buy_price = BuyPrices[opp.token_in_symbol],
                                 !.buy_available = buy_available,
                                 !.sell_available = sell_available]
            step == place_market_order(trading_api, opp.buy_venue, opp.token_in_symbol,
                                       trade_amount)
            calls == << [ exchange |-> opp.buy_venue, side |-> "buy",
                          amount |-> trade_amount, sent |-> step = "post" ] >>
            failed == [run EXCEPT !.buy_result = TradeResult(FALSE, trade_amount, 0)]
        IN  /\ opp.buy_venue # opp.sell_venue
            /\ IF \/ opp.type # "CEX_CEX"
                  \/ ~trading_api.trading_enabled
                  \/ ~validate_trade_amount(opp.token_in_symbol, trade_amount)
                  \/ ~feasible
               THEN CexReturn(run, << >>, "False")
               ELSE IF step = "post"
               THEN cex' = run /\ pc' = "BuyPending" /\ place_calls' = calls
                    /\ UNCHANGED returned
               ELSE IF step = "none"
               THEN CexReturn(run, calls, "False")                    \* AttributeError
               ELSE IF buy_failed(failed.buy_result)
               THEN CexReturn(failed, calls, "False")
               ELSE CexPlaceSell(failed, calls)
    /\ UNCHANGED <<cycle, serviceVars, scanner, live, scanVars, profit_calc, trading_api, external>>

\* the buy exchange answers (or the request raises), and execution goes on to the sell leg
CexBuyAnswer ==
    /\ scanner = "cex"
    /\ pc = "BuyPending"
    /\ \E answer \in {"ok", "rejected", "raised", "timeout"},
          filled \in FillQuantities(cex.amount) :
        LET run == IF answer = "ok"
                   THEN [cex EXCEPT !.buy_result = order_success(cex.buy_venue, cex.amount,
                                                                 filled),
                                    !.buy_filled = filled]
                   ELSE [cex EXCEPT !.buy_result = TradeResult(FALSE, cex.amount, 0)]
        IN  /\ answer # "ok" => filled = cex.amount
            /\ external' = [external EXCEPT !.buy = answer]
            /\ IF buy_failed(run.buy_result)
               THEN CexReturn(run, place_calls, "False")
               ELSE CexPlaceSell(run, place_calls)
    /\ UNCHANGED <<cycle, serviceVars, scanner, live, scanVars, profit_calc, trading_api>>

\* the sell exchange answers (or the request raises), and execute_cex_arbitrage returns
CexSellAnswer ==
    /\ scanner = "cex"
    /\ pc = "SellPending"
    /\ LET amount == cex.buy_result.executed_amount
       IN  \E answer \in {"ok", "rejected", "raised", "timeout"},
              filled \in FillQuantities(amount) :
            LET run == IF answer = "ok"
                       THEN [cex EXCEPT !.sell_result = order_success(cex.sell_venue,
                                                                       amount, filled),
                                        !.sell_filled = filled]
                       ELSE [cex EXCEPT !.sell_result = TradeResult(FALSE, amount, 0)]
            IN  /\ answer # "ok" => filled = amount
                /\ external' = [external EXCEPT !.sell = answer]
                /\ CexReturn(run,
                             IF run.sell_result.success THEN place_calls
                             ELSE after_sell_failure(place_calls, run),
                             IF cex_success(run.buy_result, run.sell_result)
                             THEN "True" ELSE "False")
    /\ UNCHANGED <<cycle, serviceVars, scanner, live, scanVars, profit_calc, trading_api>>

\* the caller is done with the result; the next opportunity may be handed over
CexNext ==
    /\ scanner = "cex"
    /\ pc = "Returned"
    /\ pc' = "Idle"
    /\ cex' = NoCex
    /\ place_calls' = << >>
    /\ external' = NoExternal
    /\ UNCHANGED <<cycle, serviceVars, scanner, live, scanVars, profit_calc, trading_api, returned>>

\* time passes for the rate limiters
ClockTick ==
    /\ scanner \in {"quotes", "cex_prices"}
    /\ \E d \in {1, 25} :
         /\ clock + d <= (IF scanner = "quotes" THEN MaxClock ELSE MaxExchangeClock)
         /\ clock' = clock + d
    /\ UNCHANGED <<cycle, serviceVars, scanner, live, pc, profit_calc, cexVars, now, last_execution_time,
                   dex_prices, k, opportunity, current_time, trade_amount_tokens, stats,
                   event, reverse_request, top_opportunities, prev_invoke_time, scan_log,
                   cex_quotes, last_request_time, last_request_times, issued,
                   external, telegram>>

\* main.py: _get_amounts_out asks router d, after _rate_limit; time.sleep may return
\* late, and the request goes out at the time _rate_limit stores
RouterRequest ==
    /\ scanner = "quotes"
    /\ \E d \in DexSet, late \in {0, 1} :
         LET wake == rate_limit(clock, last_request_time, request_delay) + late
         IN  /\ wake <= MaxClock
             /\ clock' = wake
             /\ last_request_time' = wake
             /\ issued' = [issued EXCEPT ![d] = [prev |-> @.last, last |-> wake]]
    /\ UNCHANGED <<cycle, serviceVars, scanner, live, pc, profit_calc, cexVars, now, last_execution_time,
                   dex_prices, k, opportunity, current_time, trade_amount_tokens, stats,
                   event, reverse_request, top_opportunities, prev_invoke_time, scan_log,
                   cex_quotes, last_request_times, external, telegram>>

\* cex_price_provider.py: a _get_*_price coroutine asks exchange e, after
\* _rate_limit(e); nothing is awaited inside _rate_limit
ExchangeRequest ==
    /\ scanner = "cex_prices"
    /\ \E e \in PriceExchanges, late \in {0, 1} :
         LET wake == rate_limit(clock, last_request(last_request_times, e),
                                min_interval(e)) + late
         IN  /\ wake <= MaxExchangeClock
             /\ clock' = wake
             /\ last_request_times' =
                    [x \in DOMAIN last_request_times \cup {e} |->
                        IF x = e THEN wake ELSE last_request_times[x]]
             /\ issued' = [issued EXCEPT ![e] = [prev |-> @.last, last |-> wake]]
    /\ UNCHANGED <<cycle, serviceVars, scanner, live, pc, profit_calc, cexVars, now, last_execution_time,
                   dex_prices, k, opportunity, current_time, trade_amount_tokens, stats,
                   event, reverse_request, top_opportunities, prev_invoke_time, scan_log,
                   cex_quotes, last_request_time, external, telegram>>

\* the `except Exception` of run_continuous_immediate_scanning: it logs, sleeps 30
\* seconds and calls run_continuous_immediate_scanning again from inside the handler
ScannerError ==
    /\ scanner = "restart"
    /\ restarts < MaxRestarts
    /\ restarts' = restarts + 1
    /\ event' = "RESTART"
    /\ UNCHANGED <<scanner, live, now, last_execution_time, dex_prices, k, opportunity,
                   current_time, trade_amount_tokens, stats, reverse_request,
                   top_opportunities, prev_invoke_time, scan_log, cex_quotes,
                   limiterVars, telegram, profit_calc, cexVars, external,
                   bot_stats, classified, cycle, provider, dex_cache, pc>>

\* one of the notify_... and update_... methods of the bot is called
BotNotify ==
    /\ scanner = "bot"
    /\ \/ /\ bot_stats.total_opportunities_found < MaxBotCount
          /\ \E opportunity_type \in {"CEX_CEX", "CEX_DEX", "DEX_CEX", "DEX_DEX"},
                notify_opportunities \in BOOLEAN :
                bot_stats' = notify_opportunity_found(bot_stats, opportunity_type,
                                                      notify_opportunities)
          /\ event' = "notify_opportunity_found"
       \/ /\ bot_stats.total_trades_executed < MaxBotCount
          /\ \E success \in BOOLEAN, notify_trades \in BOOLEAN :
                bot_stats' = notify_trade_executed(bot_stats, success, notify_trades)
          /\ event' = "notify_trade_executed"
       \/ /\ bot_stats.scans_completed < MaxBotCount
          /\ bot_stats' = update_scan_stats(bot_stats)
          /\ event' = "update_scan_stats"
    /\ UNCHANGED <<scanner, live, now, last_execution_time, dex_prices, k, opportunity,
                   current_time, trade_amount_tokens, stats, reverse_request,
                   top_opportunities, prev_invoke_time, scan_log, cex_quotes,
                   limiterVars, telegram, profit_calc, cexVars, external,
                   restarts, classified, cycle, provider, dex_cache, pc>>

\* check_commands hands one message of the chat to handle_command
BotCommand ==
    /\ scanner = "bot"
    /\ \E text \in BotCommands :
          /\ bot_stats' = handle_command(bot_stats, text)
          /\ event' = text
    /\ UNCHANGED <<scanner, live, now, last_execution_time, dex_prices, k, opportunity,
                   current_time, trade_amount_tokens, stats, reverse_request,
                   top_opportunities, prev_invoke_time, scan_log, cex_quotes,
                   limiterVars, telegram, profit_calc, cexVars, external,
                   restarts, classified, cycle, provider, dex_cache, pc>>

\* the classifier runs on a set of quotes, and once more on the same set; a run that
\* finds an executable opportunity executes it (a simulation, which succeeds), puts
\* self.trade_amount_tokens back and sets self.last_execution_time
Classify ==
    /\ scanner = "classify"
    /\ \E quotes \in DexQuoteSets \cup CexQuoteSets :
        LET result == classify("main", quotes, last_execution_time)
        IN  /\ quotes.kind = "dex" => quotes.dex_buy # quotes.dex_sell
            /\ classified.runs = 1 => quotes = classified.quotes
            /\ classified' = IF classified.runs = 1
                             THEN [classified EXCEPT !.second = result, !.runs = 2]
                             ELSE [ quotes |-> quotes, first |-> result,
                                    second |-> NoClassification, runs |-> 1 ]
            /\ last_execution_time' =
                 IF /\ result.built /\ qualifies("main", result.profit_percentage)
                    /\ cooldown_elapsed("main", now, last_execution_time)
                 THEN now
                 ELSE last_execution_time
            /\ event' = "CLASSIFIED"
    /\ UNCHANGED <<scanner, live, now, trade_amount_tokens, dex_prices, k, opportunity,
                   current_time, stats, reverse_request, top_opportunities,
                   prev_invoke_time, scan_log, cex_quotes, limiterVars, telegram,
                   profit_calc, cexVars, external, restarts, bot_stats, cycle,
                   provider, dex_cache, pc>>

\* a scan task runs from one await to the next: it enters its `async with` block,
\* issues a price request inside it, or leaves it; the tasks start in gather's order
ScanTaskStep ==
    /\ scanner = "sessions"
    /\ \E i \in 1..Len(ScanTasks) :
        LET t == ScanTasks[i]
            own == provider.task[t]
        IN  \/ /\ own.at = "start"
               /\ \A j \in 1..(i - 1) : provider.task[ScanTasks[j]].at # "start"
               /\ provider' = aenter(provider, t)
               /\ event' = "aenter"
            \/ /\ own.at = "inside"
               /\ own.requests < MaxRequests
               /\ provider' = session_get(provider, t)
               /\ event' = "get"
            \/ /\ own.at = "inside"
               /\ provider' = aexit(provider, t)
               /\ event' = "aexit"
    /\ UNCHANGED <<scanner, live, now, last_execution_time, dex_prices, k, opportunity,
                   current_time, trade_amount_tokens, stats, reverse_request,
                   top_opportunities, prev_invoke_time, scan_log, cex_quotes,
                   limiterVars, telegram, profit_calc, cexVars, external, restarts,
                   bot_stats, classified, cycle, dex_cache, pc>>

\* time passes between two calls of get_dex_price
CacheTick ==
    /\ scanner = "dex_cache"
    /\ \E d \in {5} :
         /\ dex_cache.time + d <= MaxCacheTime
         /\ dex_cache' = [dex_cache EXCEPT !.time = @ + d]
    /\ UNCHANGED <<scanner, live, now, last_execution_time, dex_prices, k, opportunity,
                   current_time, trade_amount_tokens, stats, reverse_request,
                   top_opportunities, prev_invoke_time, scan_log, cex_quotes,
                   limiterVars, telegram, profit_calc, cexVars, external, restarts,
                   bot_stats, classified, cycle, provider, pc, event>>

\* one call of get_dex_price: it returns the cached price of the key while that is
\* fresh, and otherwise asks the DEX scanner, which takes `took` seconds, and stores
\* a positive quote under the key with the time read at the start of the call
GetDexPrice ==
    /\ scanner = "dex_cache"
    /\ \E request \in DexRequests, outcome \in QuoteOutcomes, took \in {0, 5} :
        LET key == cache_key(request[1], request[2], request[3])
            t == dex_cache.time
            hit == cached_data(dex_cache.entries, key)
            amount_out == IF outcome.kind = "quote" THEN outcome.per_unit * request[3]
                          ELSE 0
            price == (amount_out * 1000) \div request[3]
            entry == [ key |-> key, price |-> price, timestamp |-> t, amount_out |-> amount_out,
                       request |-> request ]
        IN  IF cached(dex_cache.entries, key)
               /\ is_fresh(t, hit.timestamp)
            THEN /\ dex_cache' =
                      [dex_cache EXCEPT
                         !.last = [ kind |-> "cached", request |-> request,
                                    price |-> hit.price,
                                    age |-> t - hit.timestamp,
                                    stored_for |-> hit.request ]]
                 /\ event' = "CACHED"
            ELSE /\ t + took <= MaxCacheTime
                 /\ IF amount_out > 0
                    THEN /\ dex_cache' =
                              [ time |-> t + took,
                                entries |-> store(dex_cache.entries, entry),
                                last |-> [ kind |-> "fetched", request |-> request,
                                           price |-> price, age |-> 0,
                                           stored_for |-> request ] ]
                         /\ event' = "FETCHED"
                    ELSE /\ dex_cache' =
                              [dex_cache EXCEPT
                                 !.time = t + took,
                                 !.last = [ kind |-> "none", request |-> request,
                                            price |-> 0, age |-> 0,
                                            stored_for |-> << >> ]]
                         /\ event' = "NONE"
    /\ UNCHANGED <<scanner, live, now, last_execution_time, dex_prices, k, opportunity,
                   current_time, trade_amount_tokens, stats, reverse_request,
                   top_opportunities, prev_invoke_time, scan_log, cex_quotes,
                   limiterVars, telegram, profit_calc, cexVars, external, restarts,
                   bot_stats, classified, cycle, provider, pc>>

Next ==
    \/ Tick
    \/ StartScan
    \/ EvalCandidate
    \/ ExecComplete
    \/ EnhScan
    \/ EnhProcess
    \/ EnhExecComplete
    \/ ProdScan
    \/ ProdEvaluate
    \/ CexStart
    \/ CexBuyAnswer
    \/ CexSellAnswer
    \/ CexNext
    \/ ClockTick
    \/ RouterRequest
    \/ ExchangeRequest
    \/ ScannerError
    \/ BotNotify
    \/ BotCommand
    \/ Classify
    \/ NextCycle
    \/ ScanTaskStep
    \/ CacheTick
    \/ GetDexPrice

Spec == Init /\ [][Next]_vars

TypeOK ==
    /\ pc \in {"Idle", "Scanning", "Processing", "Executing", "BuyPending", "SellPending",
              "Returned"}
    /\ now \in StartTime..(MaxTime + TickStep)
    /\ last_execution_time \in 0..now

(***************************************************************************)
(* Properties.                                                             *)
(***************************************************************************)
Scanning == scanner \in {"main", "optimized"}

\* the step invokes an execution strategy (the Evaluating -> Executing transition)
Invokes == pc # "Executing" /\ pc' = "Executing"

\* C1: two qualifying opportunities evaluated less than the minimum execution
\* interval apart do not both lead to an invocation of an execution strategy:
\* whenever a strategy is invoked, the opportunity of the previous invocation was
\* evaluated at least min_execution_interval earlier.
C1_CooldownBetweenExecutions ==
    (pc = "Executing" /\ prev_invoke_time # -1)
        => current_time - prev_invoke_time >= Config(scanner).min_execution_interval

\* C2: once an invoked execution has returned, succeeded or failed, the
\* last-execution timestamp has been updated: it is not older than the moment the
\* executed opportunity was evaluated.
C2_TimestampUpdatedAfterExecution ==
    (pc # "Executing" /\ prev_invoke_time # -1) => last_execution_time >= prev_invoke_time

\* the candidate the scan is about to evaluate
Candidate ==
    IF scanner = "production" THEN ProductionCandidates(dex_prices)[k]
    ELSE Candidates(dex_prices)[k]

C5_SellAmountIsFilledQuantity ==
    \A i \in DOMAIN place_calls :
        place_calls[i].side = "sell" => place_calls[i].amount = cex.buy_filled

\* C6: a sell order is placed only after the buy order was sent and its success was
\* confirmed; after a failed buy no sell order is placed.
C6_SellOnlyAfterBuyConfirmed ==
    /\ \A i \in DOMAIN place_calls :
          place_calls[i].side = "sell" =>
              /\ i = 2
              /\ place_calls[1].side = "buy"
              /\ place_calls[1].sent
              /\ ~cex.buy_result.is_none
              /\ cex.buy_result.success
    /\ (pc = "Returned" /\ place_calls # << >> /\ ~cex.buy_result.success)
          => Len(place_calls) = 1 /\ place_calls[1].side = "buy"

\* the buy was confirmed and the sell order went out to the sell exchange
C6_Witness ==
    /\ scanner = "cex"
    /\ pc = "SellPending"
    /\ cex.buy_result.success
    /\ Len(place_calls) = 2
    /\ place_calls[2].side = "sell"
    /\ place_calls[2].sent

\* C7: a qualifying opportunity evaluated before the cooldown has elapsed is dropped:
\* the step that throttles it does not execute it, and a strategy is invoked only in
\* the step that builds a new Opportunity from a fresh quote, with the cooldown elapsed.
C7_ThrottledIsDropped ==
    [][ /\ (event' = "THROTTLED" => pc' # "Executing")
        /\ (Invokes => now - last_execution_time >= Config(scanner).min_execution_interval)
        /\ (Invokes /\ Scanning =>
              /\ stats'.opportunities_found = stats.opportunities_found + 1
              /\ opportunity' # opportunity
              /\ reverse_request'.dex = opportunity'.dex_sell) ]_vars

\* a qualifying opportunity was throttled and the scan went on without executing it
C7_Witness ==
    /\ Scanning
    /\ event = "THROTTLED"
    /\ opportunity.profit_percentage >= Config(scanner).immediate_execution_threshold
    /\ now - last_execution_time < Config(scanner).min_execution_interval
    /\ pc \in {"Scanning", "Idle"}
    /\ stats.immediate_executions >= 1

\* C8: an opportunity whose tier is below immediate is never executed: while a
\* strategy runs, the profit of its opportunity is at least the immediate threshold
\* (a UnifiedOpportunity carries its profit as a number of percent).
C8_BelowImmediateNeverExecuted ==
    pc = "Executing" =>
        IF Scanning
        THEN opportunity.profit_percentage >= Config(scanner).immediate_execution_threshold
        ELSE top_opportunities[k].profit_percentage
                 >= 100 * Config(scanner).immediate_execution_threshold

\* every fee component the calculation has computed
AllFees(calc) == calc.flashloan_fee + calc.venue_fees + calc.gas_cost

\* profit / amount as the integer that stands for the float
percentage_of(profit, amount) ==
    IF amount >= PctScale THEN profit \div (amount \div PctScale)
    ELSE (profit * PctScale) \div amount

\* C9: the net profit of a round trip is the final amount minus the principal minus
\* the sum of flash-loan fee, venue fees and gas cost.
C9_NetProfitFormula ==
    profit_calc # NoCalc =>
        profit_calc.net_profit
            = profit_calc.final_amount - profit_calc.principal - AllFees(profit_calc)

\* C10: no fee component is negative, and the profit that is compared with the
\* thresholds is the profit left after every fee component has been deducted.
C10_AllFeesDeductedBeforeThresholds ==
    profit_calc # NoCalc =>
        /\ profit_calc.flashloan_fee >= 0
        /\ profit_calc.venue_fees >= 0
        /\ profit_calc.gas_cost >= 0
        /\ LET left == profit_calc.final_amount - profit_calc.principal
                          - AllFees(profit_calc)
           IN  profit_calc.compared
                 = IF left > 0 THEN percentage_of(left, profit_calc.principal) ELSE 0

\* C11: a scan of one asset pair yields at most one Opportunity, and that one has the
\* highest profit among all the candidates (venue pairs, both directions) the scan
\* evaluated.
C11_SingleBestOpportunity ==
    /\ Len(scan_log.found) <= 1
    /\ scan_log.found # << >> => scan_log.found[1] = scan_log.best

\* C12: when the scan of a pair has run through its loops (it returns False), both
\* directions of every unordered pair of venues that returned a valid quote have been
\* evaluated in that scan.
C12_BothDirectionsEvaluated ==
    [][ (Scanning /\ pc \in {"Scanning", "Executing"} /\ pc' = "Idle"
           /\ event' # "SUCCESS")
          => \A a, b \in DexSet :
                (a # b /\ dex_prices[a] > 0 /\ dex_prices[b] > 0)
                    => <<a, b>> \in scan_log'.evaluated ]_vars

\* the tiers of a scanner in ascending order of threshold: threshold, trade size and
\* the execute / skip decision
Tiers(s) ==
    << [ threshold |-> Config(s).min_profit_threshold,
         size |-> Config(s).base_trade_amount, execute |-> FALSE ],
       [ threshold |-> Config(s).immediate_execution_threshold,
         size |-> Config(s).aggressive_trade_amount, execute |-> TRUE ],
       [ threshold |-> Config(s).aggressive_execution_threshold,
         size |-> Config(s).max_trade_amount, execute |-> TRUE ] >>

\* the tiers whose threshold does not exceed pct
TiersUpTo(s, pct) == {i \in DOMAIN Tiers(s) : Tiers(s)[i].threshold <= pct}

\* the tier with the highest threshold not exceeding pct
HighestTier(s, pct) ==
    Tiers(s)[CHOOSE i \in TiersUpTo(s, pct) : \A j \in TiersUpTo(s, pct) : j <= i]

percent_as_fraction(profit_percent) == profit_percent \div 100

\* C14: an opportunity whose net profit is below the lowest threshold is discarded: the
\* flashloan scanners build no Opportunity for it, and process_opportunities neither
\* notifies (and counts) nor executes it.
C14_BelowLowestThresholdDiscarded ==
    [][ /\ (Scanning /\ opportunity' # NoOpportunity)
              => opportunity'.profit_percentage >= Config(scanner).min_profit_threshold
        /\ (scanner = "enhanced" /\ pc = "Processing" /\ stats' # stats)
              => percent_as_fraction(top_opportunities[k].profit_percentage)
                    >= get_min_threshold(top_opportunities[k].type) ]_vars

\* the venues with a usable quote in the answers of a pair scan
UsableQuotes(prices) == {d \in DexSet : prices[d] > 0}

\* the number of venues the CEX-DEX finder has a price of
CexDexVenues(quotes) == Len(quotes.cex_dex) + (IF quotes.dex_price > 0 THEN 1 ELSE 0)

\* C15: when fewer than two venues return a usable quote for a pair, no Opportunity is
\* produced for it: a pair scan that collected fewer than two quotes returns at once
\* with nothing built, and the unified finders report no opportunity of a type for
\* which fewer than two venues gave a price.
C15_FewerThanTwoQuotesNoOpportunity ==
    [][ /\ (scanner \in {"main", "optimized", "production"} /\ pc = "Idle" /\ now' = now
             /\ cycle.pair <= NumPairs /\ Cardinality(UsableQuotes(dex_prices')) < 2)
              => (pc' = "Idle" /\ opportunity' = NoOpportunity /\ scan_log'.found = << >>)
        /\ (scanner = "enhanced" /\ pc = "Idle" /\ now' = now)
              => \A i \in DOMAIN top_opportunities' :
                    /\ top_opportunities'[i].type = "CEX_CEX"
                          => Len(cex_quotes'.cex_cex) >= 2
                    /\ top_opportunities'[i].type \in {"CEX_DEX", "DEX_CEX"}
                          => CexDexVenues(cex_quotes') >= 2 ]_vars

\* a pair scan has returned because exactly one venue gave a quote
C15_Witness ==
    /\ scanner \in {"main", "optimized", "production"}
    /\ event = "INSUFFICIENT"
    /\ Cardinality(UsableQuotes(dex_prices)) = 1
    /\ pc = "Idle"
    /\ scan_log.found = << >>

\* C16: every Opportunity produced has a buy venue different from its sell venue, in
\* the flashloan scanners and in the lists of the unified scanner alike.
C16_BuyAndSellVenueDiffer ==
    /\ opportunity # NoOpportunity => opportunity.dex_buy # opportunity.dex_sell
    /\ \A i \in DOMAIN top_opportunities :
          top_opportunities[i].buy_venue # top_opportunities[i].sell_venue

\* a pair scan has built an Opportunity out of the second direction of a pair
C16_Witness ==
    /\ Scanning
    /\ opportunity # NoOpportunity
    /\ opportunity.dex_buy = "Biswap"
    /\ opportunity.dex_sell = "PancakeSwap"

\* C17: every quote a profit computation worked on, the buy leg's (the amount handed
\* on to the sell-leg request) and the sell leg's (the final amount), is positive and
\* has an implied price amountOut / amountIn inside the bound 0.000001 .. 1000000.
C17_QuotesWithinSaneBound ==
    (scanner \in {"main", "optimized", "production"} /\ profit_calc # NoCalc) =>
        /\ reverse_request.amount_in > 0
        /\ price_in_bound(profit_calc.principal, reverse_request.amount_in)
        /\ profit_calc.final_amount > 0
        /\ price_in_bound(reverse_request.amount_in, profit_calc.final_amount)

\* the tickers the finders were given for the list being processed
FetchedTickers ==
    {cex_quotes.cex_dex[i] : i \in DOMAIN cex_quotes.cex_dex}
        \cup {cex_quotes.cex_cex[i] : i \in DOMAIN cex_quotes.cex_cex}

\* C18: a quote request answers None or a plausible quote, whatever the venue sent:
\* every router quote a pair scan keeps is inside the price bound, and every ticker
\* the price provider hands on has positive prices.
C18_QuoteRequestNoneOrPlausible ==
    /\ Scanning =>
          \A d \in DexSet :
             dex_prices[d] = 0 \/ price_in_bound(scan_amount_in(scanner), dex_prices[d])
    /\ \A ticker \in FetchedTickers : ticker.bid > 0 /\ ticker.ask > 0

\* the minimum interval between two requests to a venue, and the timestamp its
\* limiter keeps
Interval(v) == IF v \in DexSet THEN request_delay ELSE min_interval(v)

Timestamp(v) ==
    IF v \in DexSet THEN last_request_time ELSE last_request(last_request_times, v)

\* C19: two consecutive requests to the same venue are at least the venue's minimum
\* interval apart, and the timestamp of the limiter serving a venue is never older
\* than the last request to it: it is the time of the last request the limiter let
\* through.
C19_RequestsSpacedAndStamped ==
    \A v \in DOMAIN issued :
        /\ issued[v].prev # 0 => issued[v].last - issued[v].prev >= Interval(v)
        /\ Timestamp(v) >= issued[v].last
        /\ \E w \in DOMAIN issued : Timestamp(v) = issued[w].last

\* a second request to a router went out exactly request_delay after the first, and a
\* second request to an exchange exactly its minimum interval after the first
C19_Witness ==
    \/ /\ issued["PancakeSwap"].prev = StartClock
       /\ issued["PancakeSwap"].last = StartClock + request_delay
    \/ /\ issued["Binance"].prev = StartClock
       /\ issued["Binance"].last = StartClock + min_interval("Binance")

\* C20: an execution whose wait for the receipt ran into the timeout is handled as
\* failed (no success is logged or counted), and execute_cex_arbitrage returns False
\* when an order request of it timed out.
C20_TimeoutNeverSuccess ==
    [][ /\ (Scanning /\ pc = "Executing" /\ pc' # "Executing"
               /\ external'.receipt = "timeout")
              => (event' = "FAILED"
                    /\ stats'.trades_successful = stats.trades_successful)
        /\ (scanner = "cex" /\ pc' = "Returned"
               /\ "timeout" \in {external'.buy, external'.sell})
              => cex'.result = "False" ]_vars

\* a live execution has been handled as failed after the wait for its receipt timed out
C20_Witness ==
    /\ scanner = "main"
    /\ live
    /\ external.receipt = "timeout"
    /\ event = "FAILED"

\* C21: an execution strategy is invoked at most once for an Opportunity: every
\* invocation is for the Opportunity of a candidate the scan visits for the first
\* time, and when an execution has returned, failed or not, the scan is over or has
\* moved on to a later candidate.
C21_InvokedAtMostOnce ==
    [][ /\ (Scanning /\ Invokes)
              => <<Candidate.buy, Candidate.sell>> \notin scan_log.evaluated
        /\ (scanner \in {"main", "optimized", "enhanced"}
               /\ pc = "Executing" /\ pc' # "Executing")
              => (pc' = "Idle" \/ k' > k) ]_vars

\* a live execution has failed and the scan has gone on to the next candidate
C21_Witness ==
    /\ scanner = "main"
    /\ event = "FAILED"
    /\ pc = "Scanning"
    /\ k > 1
    /\ opportunity # NoOpportunity

\* C22: whenever a scanner discards an opportunity, throttles an execution or sees an
\* execution fail, that step sends a notification and adds to a statistics counter.
C22_DiscardThrottleFailureReported ==
    [][ (scanner \in {"main", "optimized", "enhanced"} /\ now' = now
           /\ event' \in {"BELOW_MIN", "THROTTLED", "FAILED"})
          => (telegram' # {} /\ stats' # stats) ]_vars

\* the balance an execution needs is missing: the buy exchange holds less of the quote
\* currency than the base amount costs, or the sell exchange less than the base amount
InsufficientBalance(run) ==
    \/ run.buy_available < run.amount * run.buy_price
    \/ run.sell_available < run.amount

StrategyPairings == {"CEX_DEX", "DEX_CEX", "DEX_DEX"}

C25_RoutersMatchVenues ==
    [][ (scanner = "main" /\ pc = "Executing" /\ pc' # "Executing"
           /\ external'.buyRouter # "none")
          => /\ external'.buyRouter = opportunity.dex_buy
             /\ external'.sellRouter = opportunity.dex_sell ]_vars

\* C26: the restarts after an exception in the scan loop are bounded: the handler
\* gives up before the number of consecutive restarts, each a call on the stack,
\* reaches the number the model follows.
C26_RestartsBounded ==
    scanner = "restart" => restarts < MaxRestarts

\* no counter of the record is lower after the step than before it
NoCounterDecreases(before, after) ==
    \A f \in DOMAIN before : after[f] >= before[f]

SellFailedAfterBuy ==
    /\ scanner = "cex" /\ cex.buy_result.success
    /\ ~cex.sell_result.is_none /\ ~cex.sell_result.success

\* C28: once the sell leg has failed after a successful buy leg the execution is over
\* and no order follows the failed sell order: the orders placed are the buy order and
\* the sell order on the sell exchange, and nothing reverses the buy leg.
C28_NoReversalAfterSellFailure ==
    SellFailedAfterBuy =>
        /\ pc = "Returned"
        /\ Len(place_calls) = 2
        /\ place_calls[1].side = "buy" /\ place_calls[1].exchange = cex.buy_venue
        /\ place_calls[2].side = "sell" /\ place_calls[2].exchange = cex.sell_venue

C28_Witness ==
    /\ SellFailedAfterBuy /\ external.sell = "rejected" /\ cex.buy_filled > 0
    /\ place_calls[2].sent

\* the quotes of the round trip are 1.01 out for 1.0 in and 1.03 out for 1.01 in
RoundTripOfThreePercent(quotes) ==
    /\ quotes.kind = "dex"
    /\ quotes.amount_out_buy * 100 = quotes.amount_in * 101
    /\ quotes.final_amount * 100 = quotes.amount_in * 103

\* C29: a round trip quoted 1.0 -> 1.01 -> 1.03 under fees of 0.5% of amount_in is
\* given a net profit of about 2.5% (between 2.4% and 2.6%), reaches every threshold
\* of {0.1%, 0.5%, 1.5%} and is put into the immediate tier or a higher one.
C29_ThreePercentRoundTripIsImmediate ==
    (scanner = "classify" /\ classified.runs > 0
       /\ RoundTripOfThreePercent(classified.quotes)) =>
        /\ classified.first.profit_percentage \in 24000..26000
        /\ \A threshold \in {1000, 5000, 15000} :
              classified.first.profit_percentage >= threshold
        /\ classified.first.built
        /\ classified.first.tier \in {"IMMEDIATE", "AGGRESSIVE"}

C29_Witness ==
    /\ scanner = "classify" /\ classified.runs = 1
    /\ RoundTripOfThreePercent(classified.quotes)
    /\ classified.quotes.amount_in = 40000
    /\ classified.first.profit_percentage = 24850

C31_TimestampIsCompletionTime ==
    [][ (scanner \in {"main", "optimized", "enhanced"}
           /\ pc = "Executing" /\ pc' # "Executing"
           /\ last_execution_time' # last_execution_time)
          => last_execution_time' = now ]_vars

\* C32: the amount the flash-loan transaction of an executed opportunity borrows is
\* the amount_in the opportunity's round trip was quoted and its profit computed for.
C32_BorrowedIsQuotedAmount ==
    [][ (scanner = "main" /\ pc = "Executing" /\ pc' # "Executing"
           /\ external'.borrowed # 0)
          => external'.borrowed = opportunity.amount_in ]_vars

\* C33: at most one execution succeeds in a scan cycle: when the scan of a pair has
\* reported a successful execution the pair loop is left, and no scan and no execution
\* starts before the next cycle.
C33_OneSuccessPerCycle ==
    [][ /\ scanner \in {"main", "optimized"} => cycle'.executed <= 1
        /\ (scanner \in {"main", "optimized"} /\ cycle.executed > 0)
              => (pc' = "Idle" /\ cycle'.executed <= cycle.executed) ]_vars

C33_Witness ==
    /\ scanner = "main" /\ cycle.executed = 1 /\ cycle.pair > NumPairs
    /\ event = "SUCCESS" /\ pc = "Idle"

\* C34: while a scan task is inside its `async with` block the session of the provider
\* is the one the task's own entry created, and it is open: the other task has neither
\* replaced nor closed it.
C34_SessionKeptWhileInside ==
    scanner = "sessions" =>
        \A t \in TaskSet :
            provider.task[t].at = "inside" =>
                /\ provider.session = provider.task[t].entered
                /\ provider.session \notin provider.closed

\* C35: every invocation of an execution strategy adds exactly one to trades_attempted,
\* so that trades_successful never exceeds trades_attempted.
C35_SuccessfulAtMostAttempted ==
    /\ scanner \in {"main", "optimized", "enhanced"}
          => stats.trades_successful <= stats.trades_attempted
    /\ [][ (scanner \in {"main", "optimized", "enhanced"}
               /\ pc = "Executing" /\ pc' # "Executing")
              => stats'.trades_attempted = stats.trades_attempted + 1 ]_vars

\* C36: place_market_order returns a TradeResult for every exchange, currency and
\* amount it is called with: none of the calls of an execution comes back with None.
C36_PlaceOrderReturnsResult ==
    scanner = "cex" =>
        \A i \in 1..Len(place_calls) :
            place_market_order(trading_api, place_calls[i].exchange,
                               cex.token_in_symbol, place_calls[i].amount) # "none"

\* C37: process_opportunities compares a profit and the immediate-execution threshold
\* in one unit: an opportunity is executed only if its net profit, as a fraction, has
\* reached the threshold of 0.8%, so that one of 0.5% is not executed.
C37_ThresholdsInProfitUnit ==
    [][ (scanner = "enhanced" /\ pc = "Processing" /\ pc' = "Executing")
          => percent_as_fraction(top_opportunities[k].profit_percentage)
                >= EnhancedConfig.immediate_execution_threshold ]_vars

\* C38: no order is sent to an exchange unless CEX trading is enabled, the exchange has
\* an API key configured and the amount of the order lies within the limits of the
\* base currency.
C38_OrdersOnlyWhenEnabledAndWithinLimits ==
    scanner = "cex" =>
        \A i \in 1..Len(place_calls) :
            place_calls[i].sent =>
                /\ trading_api.trading_enabled
                /\ place_calls[i].exchange \in trading_api.enabled
                /\ place_calls[i].amount >= min_trade_amount[cex.token_in_symbol]
                /\ place_calls[i].amount <= max_trade_amount[cex.token_in_symbol]

C38_Witness ==
    /\ scanner = "cex" /\ Len(place_calls) = 2
    /\ place_calls[1].sent /\ place_calls[2].sent
    /\ place_calls[2].amount < place_calls[1].amount

\* C39: get_dex_price returns a cached price only if the entry was stored under the
\* key of the request less than cache_expiry seconds earlier, and no quote with an
\* amount_out of 0 or less is ever in the cache.
C39_CacheFreshSameKeyPositive ==
    scanner = "dex_cache" =>
        /\ dex_cache.last.kind = "cached" =>
              /\ dex_cache.last.age < cache_expiry
              /\ dex_cache.last.stored_for = dex_cache.last.request
        /\ \A e \in dex_cache.entries : e.amount_out > 0

C39_Witness ==
    /\ scanner = "dex_cache" /\ dex_cache.last.kind = "cached"
    /\ dex_cache.last.age = 5
    /\ \E e \in dex_cache.entries : dex_cache.time - e.timestamp >= cache_expiry

====
